---- MODULE Spec2Model ----
(***************************************************************************)
(* A model of the CommandLine Arduino library (CommandLine.h/.cpp): the    *)
(* non-blocking line assembler DoCmdLine, the tokenizer/dispatcher         *)
(* CmdLineProcess, and the configuration setters.                          *)
(*                                                                         *)
(* Characters are their ASCII codes; a C string is the run of cells of the *)
(* line buffer from a start index up to the first NUL.                     *)
(***************************************************************************)
EXTENDS Integers, Sequences, FiniteSets, TLC

\* ------------------------------------------------------------------------
\* Program constants
\* ------------------------------------------------------------------------
CMD_BUF_SIZE == 80
CMDLINE_MAX_ARGS == 10
CMDLINE_MAX_TERMINATORS == 2
CHAR_BS == 8
CMDLINE_BAD_CMD == -1
CMDLINE_TOO_MANY_ARGS == -2
CMDLINE_TOO_FEW_ARGS == -3
CMDLINE_INVALID_ARG == -4
NUL == 0
CR == 13
LF == 10
SPACE == 32
\* the null function pointer
NULL == "NULL"
\* the parameter types ParseParam returns
BADPARAM == -1
DECVAL == 1
HEXVAL == 2
STRVAL == 3

\* ------------------------------------------------------------------------
\* Bounds of the model
\* ------------------------------------------------------------------------
\* single bytes the stream delivers over a run
MaxBytes == 3
\* single bytes that follow a long run
MaxTail == 1
\* length of the lines enumerated over LineAlphabet
MaxLineLen == 4
\* configuration calls (setters) made over a run
MaxCfg == 1
\* length of the parameter strings enumerated over ParamAlphabet
MaxParamLen == 4

\* ------------------------------------------------------------------------
\* State
\* ------------------------------------------------------------------------
VARIABLES
    input,        \* struct input: echoEnable, crLfechoEnable, crLfcmdEnable, index, g_cCmdBuf
    argv,         \* char * argv[CMDLINE_MAX_ARGS]: indexes into g_cCmdBuf
    delimiter,    \* char delimiter
    terminators,  \* char terminators[]: cells 0 and 1 (cell 2 is never read)
    defaultFunc,  \* pfnCmdLine defaultFunc
    errorFunc,    \* pfnCustomErrs errorFunc
    rx,           \* the stream: bytes available to serial.read(), oldest first
    op,           \* the operation that made the last step
    ret,          \* what the last DoCmdLine or ParseParam call returned (else -1)
    obs,          \* what the last step did: bytes read, stream writes, handler calls, ...
    lineBytes,    \* the masked bytes consumed since the line buffer was last reset
    nArr,         \* bytes delivered so far
    nCfg,         \* configuration calls made so far
    param,        \* the string the caller passes to ParseParam (without its NUL)
    retval        \* the caller's int32_t that ParseParam is given the address of

vars == <<input, argv, delimiter, terminators, defaultFunc, errorFunc, rx,
          op, ret, obs, lineBytes, nArr, nCfg, param, retval>>

\* ------------------------------------------------------------------------
\* C strings and character functions
\* ------------------------------------------------------------------------
\* serial.read() & 0x7f
Mask7(b) == b % 128

\* strlen(buf + p): the number of cells from p up to the first NUL (the code
\* always has a NUL at or after p inside the buffer when it reads a string)
strlen(buf, p) ==
    LET nuls == {k \in p..(CMD_BUF_SIZE - 1) : buf[k] = NUL}
    IN  IF nuls = {} THEN CMD_BUF_SIZE - p
        ELSE (CHOOSE k \in nuls : \A j \in nuls : k <= j) - p

\* the C string that starts at cell p of buf, as a sequence of characters
CStr(buf, p) == [k \in 1..strlen(buf, p) |-> buf[p + k - 1]]

\* a character comparison that does not fold case (what strcmp would do)
tolower_NoFold(c) == c

\* tolower() in the C locale
tolower(c) == IF c >= 65 /\ c <= 90 THEN c + 32 ELSE c

\* strcasecmp(a, b) on two strings given as sequences: 0 when they are equal
\* under ASCII case folding, else the difference of the first folded
\* characters that differ (the end of a string reads as NUL)
RECURSIVE strcasecmp(_, _)
strcasecmp(a, b) ==
    LET ca == IF a = <<>> THEN NUL ELSE tolower(Head(a))
        cb == IF b = <<>> THEN NUL ELSE tolower(Head(b))
    IN  IF ca # cb THEN ca - cb
        ELSE IF ca = NUL THEN 0
        ELSE strcasecmp(Tail(a), Tail(b))

\* strncpy(terminators, _terminators, CMDLINE_MAX_TERMINATORS): the first two
\* characters of the source, NUL-padded when it is shorter
strncpy2(src) ==
    [k \in 0..(CMDLINE_MAX_TERMINATORS - 1) |->
        IF k + 1 <= Len(src) THEN src[k + 1] ELSE NUL]

\* ------------------------------------------------------------------------
\* The command table supplied by the application (g_sCmdTable), up to its
\* sentinel entry, and what a handler may return
\* ------------------------------------------------------------------------
\* "LIST", "add", "list": the third entry duplicates the first under case folding
g_sCmdTable ==
    << [pcCmd |-> <<76, 73, 83, 84>>,  pfnCmd |-> "Cmd_LIST"],
       [pcCmd |-> <<97, 100, 100>>,    pfnCmd |-> "Cmd_add"],
       [pcCmd |-> <<108, 105, 115, 116>>, pfnCmd |-> "Cmd_list2"],
       [pcCmd |-> <<>>,                pfnCmd |-> NULL] >>

\* status codes a command handler or the default handler returns (int8_t)
HandlerStatus == {0, CMDLINE_BAD_CMD, CMDLINE_TOO_FEW_ARGS, CMDLINE_INVALID_ARG, 5}

\* ------------------------------------------------------------------------
\* Stream writes and handler calls, as recorded in obs
\* ------------------------------------------------------------------------
Wr(kind, val) == [t |-> kind, v |-> val]
\* a call f(argc, argv) that returned r
Call(f, n, a, r) == [fn |-> f, argc |-> n, args |-> a, rv |-> r]
\* a call f(err_code) of the custom error handler (no return value)
ErrCall(f, code) == [fn |-> f, argc |-> code, args |-> <<>>, rv |-> 0]

\* the calls number from + 1 .. from + Len(calls), as events
CallMarks(calls, from) == [k \in 1..Len(calls) |-> Wr("call", from + k)]

\* obs of a step that is not a DoCmdLine call
\*   how        how the poll ended: "empty", "drained", "term" or "full"
\*   idx0, idx1 input.index when the poll began and when its scan ended
\*   nread      bytes the poll read
\*   raw        the masked bytes read since the cursor was last reset
\*   out, calls the stream writes and the handler calls, in order
\*   ev         the stream writes and the handler calls in the order they
\*              were made (the k-th call as Wr("call", k))
\*   wr, nul    the cells "g_cCmdBuf[index++] = ch" wrote, and the cell the
\*              terminating NUL was written to (as a set of at most one cell)
\*   dispatched whether CmdLineProcess was called, on which line, and what it
\*   line       returned
\*   nStatus
\*   ch         the last byte read
NoObs == [how |-> "none", idx0 |-> 0, idx1 |-> 0, nread |-> 0, raw |-> <<>>,
          out |-> <<>>, calls |-> <<>>, ev |-> <<>>, wr |-> {}, nul |-> {},
          dispatched |-> FALSE, line |-> <<>>, nStatus |-> 0, ch |-> NUL]

\* ------------------------------------------------------------------------
\* CmdLineProcess: the tokenizer and the dispatcher
\* ------------------------------------------------------------------------
\* A tokenizer step that splits on the space character whatever delimiter
\* is configured
TokenizeStep_SpaceOnly(t) ==
    IF t.done THEN t
    ELSE IF t.buf[t.p] = NUL THEN [t EXCEPT !.done = TRUE]
    ELSE IF t.buf[t.p] = SPACE
         THEN [t EXCEPT !.buf[t.p] = NUL, !.bFindArg = 1, !.p = @ + 1]
    ELSE IF t.bFindArg = 1
         THEN IF t.argc < CMDLINE_MAX_ARGS
              THEN [t EXCEPT !.argv[t.argc] = t.p, !.argc = @ + 1,
                             !.bFindArg = 0, !.p = @ + 1]
              ELSE [t EXCEPT !.done = TRUE, !.tooMany = TRUE]
    ELSE [t EXCEPT !.p = @ + 1]

\* A tokenizer step whose argument limit is one short
TokenizeStep_OneShort(t) ==
    IF t.done THEN t
    ELSE IF t.buf[t.p] = NUL THEN [t EXCEPT !.done = TRUE]
    ELSE IF t.buf[t.p] = delimiter
         THEN [t EXCEPT !.buf[t.p] = NUL, !.bFindArg = 1, !.p = @ + 1]
    ELSE IF t.bFindArg = 1
         THEN IF t.argc < CMDLINE_MAX_ARGS - 1
              THEN [t EXCEPT !.argv[t.argc] = t.p, !.argc = @ + 1,
                             !.bFindArg = 0, !.p = @ + 1]
              ELSE [t EXCEPT !.done = TRUE, !.tooMany = TRUE]
    ELSE [t EXCEPT !.p = @ + 1]

\* One evaluation of the loop "while (*pcChar)" and, when it holds, of its
\* body (lines 281-330).  t carries pcChar (as the cell index p), the line
\* buffer, argc, argv[], bFindArg, whether the loop has ended, and whether it
\* ended in "return CMDLINE_TOO_MANY_ARGS".
TokenizeStep(t) ==
    IF t.done THEN t
    ELSE IF t.buf[t.p] = NUL THEN [t EXCEPT !.done = TRUE]
    ELSE IF t.buf[t.p] = delimiter
         THEN [t EXCEPT !.buf[t.p] = NUL, !.bFindArg = 1, !.p = @ + 1]
    ELSE IF t.bFindArg = 1
         THEN IF t.argc < CMDLINE_MAX_ARGS
              THEN [t EXCEPT !.argv[t.argc] = t.p, !.argc = @ + 1,
                             !.bFindArg = 0, !.p = @ + 1]
              ELSE [t EXCEPT !.done = TRUE, !.tooMany = TRUE]
    ELSE [t EXCEPT !.p = @ + 1]

\* n evaluations of the loop in a row (nothing happens once it has ended)
RECURSIVE TokenizeSteps(_, _)
TokenizeSteps(t, n) ==
    IF n = 0 THEN t
    ELSE IF n = 1 THEN TokenizeStep(t)
    ELSE LET m == TokenizeSteps(t, n \div 2)
         IN  IF m.done THEN m ELSE TokenizeSteps(m, n - (n \div 2))

\* The whole loop over the line in buf: it ends within strlen + 1 evaluations
Tokenize(buf) ==
    TokenizeSteps([p |-> 0, buf |-> buf, argc |-> 0, argv |-> argv, bFindArg |-> 1,
                   done |-> FALSE, tooMany |-> FALSE],
                  strlen(buf, 0) + 1)

\* the arguments a handler reads through argv[0..argc-1]
ArgStrings(buf, av, argc) == [k \in 1..argc |-> CStr(buf, av[k - 1])]

\* The scan of the command table from entry e: the first entry whose name
\* matches argv[0], or 0 when the sentinel is reached
RECURSIVE FindCmd(_, _)
FindCmd(e, name) ==
    IF g_sCmdTable[e].pcCmd = <<>> THEN 0
    ELSE IF strcasecmp(name, g_sCmdTable[e].pcCmd) = 0 THEN e
    ELSE FindCmd(e + 1, name)

\* A dispatch decision that reports every unknown command as a bad command,
\* whether or not a default handler is installed
Dispatch_NoDefault(t, st) ==
    LET e    == IF t.argc # 0 THEN FindCmd(1, CStr(t.buf, t.argv[0])) ELSE 0
        args == ArgStrings(t.buf, t.argv, t.argc)
    IN  IF e # 0
        THEN [status |-> st,
              calls |-> <<Call(g_sCmdTable[e].pfnCmd, t.argc, args, st)>>]
        ELSE [status |-> CMDLINE_BAD_CMD, calls |-> <<>>]

\* the dispatch decision of lines 335-402 on the tokenizer's result t: the
\* returned status and the handler call
Dispatch(t, st) ==
    LET e    == IF t.argc # 0 THEN FindCmd(1, CStr(t.buf, t.argv[0])) ELSE 0
        args == ArgStrings(t.buf, t.argv, t.argc)
    IN  IF e # 0
        THEN [status |-> st,
              calls |-> <<Call(g_sCmdTable[e].pfnCmd, t.argc, args, st)>>]
        ELSE IF defaultFunc = NULL
        THEN [status |-> CMDLINE_BAD_CMD, calls |-> <<>>]
        ELSE [status |-> st, calls |-> <<Call(defaultFunc, t.argc, args, st)>>]

\* CmdLineProcess(pcCmdLine) on the line buffer buf; st is the status the
\* invoked handler (if one is invoked) returns.  The result holds the
\* returned status, the line buffer and argv[] as left, and the handler call.
CmdLineProcess(buf, st) ==
    LET t == Tokenize(buf)
        d == Dispatch(t, st)
    IN  IF t.tooMany
        THEN [status |-> CMDLINE_TOO_MANY_ARGS, buf |-> t.buf, argv |-> t.argv,
              argc |-> t.argc, calls |-> <<>>]
        ELSE [status |-> d.status, buf |-> t.buf, argv |-> t.argv,
              argc |-> t.argc, calls |-> d.calls]

\* ------------------------------------------------------------------------
\* DoCmdLine: the line assembler
\* ------------------------------------------------------------------------
\* (ch == terminators[0]) || (ch == terminators[1])
IsTerminator(ch) == ch = terminators[0] \/ ch = terminators[1]

\* An echo condition under which CR/LF echo works without echo
EchoWanted_CrLfAlone(ch) ==
    \/ (input.echoEnable /\ ch # CR /\ ch # LF)
    \/ ((ch = CR \/ ch = LF) /\ input.crLfechoEnable)

\* the echo condition of lines 135-141
EchoWanted(ch) ==
    input.echoEnable /\ ((ch # CR /\ ch # LF) \/ input.crLfechoEnable)

\* the bound of the scan loop: i < (sizeof(input.g_cCmdBuf) - 1)
ScanLimit == CMD_BUF_SIZE - 1

\* input.g_cCmdBuf[input.index++] = ch
Store(s, ch) ==
    [s EXCEPT !.buf[s.index] = ch,
              !.index = @ + 1,
              !.wr = @ \cup {s.index}]

\* A backspace that moves the cursor (a uint8_t) back even from cell 0
Backspace_Unguarded(s) == [s EXCEPT !.index = (@ - 1) % 256]

\* A backspace that is dropped like a line feed
Backspace_Ignored(s) == s

\* lines 151-157: a backspace moves the cursor back unless it is at cell 0
Backspace(s) == IF s.index # 0 THEN [s EXCEPT !.index = @ - 1] ELSE s

\* A loop body that reads on past a terminator while the stream has bytes
ReadByte_ReadsOn(s) ==
    LET ch == Mask7(Head(s.rx))
        s1 == [s EXCEPT !.rx = Tail(@), !.ch = ch, !.nread = @ + 1,
                        !.read = Append(@, ch),
                        !.out = IF EchoWanted(ch)
                                THEN Append(@, Wr("write", ch)) ELSE @]
    IN  IF IsTerminator(ch)
        THEN IF ch # CR /\ ch # LF
             THEN [Store(s1, ch) EXCEPT !.brk = (Len(s1.rx) = 0)]
             ELSE [s1 EXCEPT !.brk = (Len(s1.rx) = 0)]
        ELSE IF ch = CHAR_BS
        THEN Backspace(s1)
        ELSE IF ch = LF
        THEN s1
        ELSE Store(s1, ch)

\* A loop body that stores no terminator, whichever it is
ReadByte_DropsTerminator(s) ==
    LET ch == Mask7(Head(s.rx))
        s1 == [s EXCEPT !.rx = Tail(@), !.ch = ch, !.nread = @ + 1,
                        !.read = Append(@, ch),
                        !.out = IF EchoWanted(ch)
                                THEN Append(@, Wr("write", ch)) ELSE @]
    IN  IF IsTerminator(ch)
        THEN [s1 EXCEPT !.brk = TRUE]
        ELSE IF ch = CHAR_BS
        THEN Backspace(s1)
        ELSE IF ch = LF
        THEN s1
        ELSE Store(s1, ch)

\* One pass of the loop body with a byte available (lines 134-165).
\* s carries input.index, input.g_cCmdBuf, the stream, ch, and the record of
\* what was read and written; brk is set when the pass ends in "break".
ReadByte(s) ==
    LET ch == Mask7(Head(s.rx))
        s1 == [s EXCEPT !.rx = Tail(@), !.ch = ch, !.nread = @ + 1,
                        !.read = Append(@, ch),
                        !.out = IF EchoWanted(ch)
                                THEN Append(@, Wr("write", ch)) ELSE @]
    IN  IF IsTerminator(ch)
        THEN IF ch # CR /\ ch # LF
             THEN [Store(s1, ch) EXCEPT !.brk = TRUE]
             ELSE [s1 EXCEPT !.brk = TRUE]
        ELSE IF ch = CHAR_BS
        THEN Backspace(s1)
        ELSE IF ch = LF
        THEN s1
        ELSE Store(s1, ch)

\* A loop whose failed condition ends the call like an empty stream does
ScanPass_FullIsNoOp(s) ==
    IF s.how # "run" THEN s
    ELSE IF ~(s.i < ScanLimit) THEN [s EXCEPT !.how = "drained"]
    ELSE IF Len(s.rx) = 0 THEN [s EXCEPT !.how = "drained"]
    ELSE LET s1 == ReadByte(s)
         IN  IF s1.brk THEN [s1 EXCEPT !.how = "term"]
             ELSE [s1 EXCEPT !.i = @ + 1]

\* One evaluation of the loop condition of line 130 and, when it holds, of
\* the loop body.  how tells how the loop ended: "drained" (return 0 at line
\* 169), "term" (break at line 149) or "full" (the loop condition failed);
\* it is "run" while the loop goes on.
ScanPass(s) ==
    IF s.how # "run" THEN s
    ELSE IF ~(s.i < ScanLimit) THEN [s EXCEPT !.how = "full"]
    ELSE IF Len(s.rx) = 0 THEN [s EXCEPT !.how = "drained"]
    ELSE LET s1 == ReadByte(s)
         IN  IF s1.brk THEN [s1 EXCEPT !.how = "term"]
             ELSE [s1 EXCEPT !.i = @ + 1]

\* n evaluations in a row (nothing happens once the loop has ended)
RECURSIVE ScanPasses(_, _)
ScanPasses(s, n) ==
    IF n = 0 THEN s
    ELSE IF n = 1 THEN ScanPass(s)
    ELSE LET m == ScanPasses(s, n \div 2)
         IN  IF m.how # "run" THEN m ELSE ScanPasses(m, n - (n \div 2))

\* The scan loop of lines 130-171: every pass but the last reads a byte, so
\* it ends within Len(rx) + 1 evaluations
ScanLoop(s) == ScanPasses(s, Len(s.rx) + 1)

\* Error messages without the generic one for other non-zero codes
ErrorMessages_NoGeneric(nStatus) ==
    IF nStatus = CMDLINE_BAD_CMD THEN <<Wr("BadCommand", 0)>>
    ELSE IF nStatus = CMDLINE_TOO_MANY_ARGS THEN <<Wr("TooManyArgs", 0)>>
    ELSE IF nStatus = CMDLINE_TOO_FEW_ARGS THEN <<Wr("TooFewArgs", 0)>>
    ELSE IF nStatus = CMDLINE_INVALID_ARG THEN <<Wr("InvalidArg", 0)>>
    ELSE <<>>

\* the built-in error messages of lines 191-222, as stream writes
ErrorMessages(nStatus) ==
    IF nStatus = CMDLINE_BAD_CMD THEN <<Wr("BadCommand", 0)>>
    ELSE IF nStatus = CMDLINE_TOO_MANY_ARGS THEN <<Wr("TooManyArgs", 0)>>
    ELSE IF nStatus = CMDLINE_TOO_FEW_ARGS THEN <<Wr("TooFewArgs", 0)>>
    ELSE IF nStatus = CMDLINE_INVALID_ARG THEN <<Wr("InvalidArg", 0)>>
    ELSE IF nStatus # 0 THEN <<Wr("ErrorCode", 0), Wr("printlnInt", nStatus)>>
    ELSE <<>>

\* A completion that calls the custom error handler for errors only
Complete_ErrorsOnly(s, st) ==
    LET buf1 == [s.buf EXCEPT ![s.index] = NUL]
        nl   == IF (s.ch = CR \/ s.ch = LF) /\ input.crLfcmdEnable
                THEN <<Wr("println", 0)>> ELSE <<>>
        r    == CmdLineProcess(buf1, st)
    IN  IF strlen(buf1, 0) > 0
        THEN [buf |-> r.buf, argv |-> r.argv, dispatched |-> TRUE,
              line |-> CStr(buf1, 0), nStatus |-> r.status,
              out |-> s.out \o nl \o
                      (IF errorFunc # NULL THEN <<>> ELSE ErrorMessages(r.status)),
              calls |-> r.calls \o
                        (IF errorFunc # NULL /\ r.status # 0
                         THEN <<ErrCall(errorFunc, r.status)>> ELSE <<>>),
              ev |-> s.out \o nl \o CallMarks(r.calls, 0) \o
                     (IF errorFunc # NULL
                      THEN (IF r.status # 0
                            THEN <<Wr("call", Len(r.calls) + 1)>> ELSE <<>>)
                      ELSE ErrorMessages(r.status))]
        ELSE [buf |-> buf1, argv |-> argv, dispatched |-> FALSE,
              line |-> <<>>, nStatus |-> 0, out |-> s.out, calls |-> <<>>,
              ev |-> s.out]

\* A completion that writes the newline after the dispatch
Complete_NewlineLast(s, st) ==
    LET buf1 == [s.buf EXCEPT ![s.index] = NUL]
        nl   == IF (s.ch = CR \/ s.ch = LF) /\ input.crLfcmdEnable
                THEN <<Wr("println", 0)>> ELSE <<>>
        r    == CmdLineProcess(buf1, st)
    IN  IF strlen(buf1, 0) > 0
        THEN [buf |-> r.buf, argv |-> r.argv, dispatched |-> TRUE,
              line |-> CStr(buf1, 0), nStatus |-> r.status,
              out |-> s.out \o nl \o
                      (IF errorFunc # NULL THEN <<>> ELSE ErrorMessages(r.status)),
              calls |-> r.calls \o
                        (IF errorFunc # NULL
                         THEN <<ErrCall(errorFunc, r.status)>> ELSE <<>>),
              ev |-> s.out \o CallMarks(r.calls, 0) \o nl \o
                     (IF errorFunc # NULL
                      THEN <<Wr("call", Len(r.calls) + 1)>>
                      ELSE ErrorMessages(r.status))]
        ELSE [buf |-> buf1, argv |-> argv, dispatched |-> FALSE,
              line |-> <<>>, nStatus |-> 0, out |-> s.out, calls |-> <<>>,
              ev |-> s.out]

\* A completion that passes the line to CmdLineProcess even when it is empty
Complete_AlwaysDispatches(s, st) ==
    LET buf1 == [s.buf EXCEPT ![s.index] = NUL]
        nl   == IF (s.ch = CR \/ s.ch = LF) /\ input.crLfcmdEnable
                THEN <<Wr("println", 0)>> ELSE <<>>
        r    == CmdLineProcess(buf1, st)
    IN  [buf |-> r.buf, argv |-> r.argv, dispatched |-> TRUE,
         line |-> CStr(buf1, 0), nStatus |-> r.status,
         out |-> s.out \o nl \o
                 (IF errorFunc # NULL THEN <<>> ELSE ErrorMessages(r.status)),
         calls |-> r.calls \o
                   (IF errorFunc # NULL
                    THEN <<ErrCall(errorFunc, r.status)>> ELSE <<>>),
         ev |-> s.out \o nl \o CallMarks(r.calls, 0) \o
                (IF errorFunc # NULL
                 THEN <<Wr("call", Len(r.calls) + 1)>>
                 ELSE ErrorMessages(r.status))]

\* Lines 172-226, after the scan loop s has ended without "return 0": the
\* terminating NUL, the dispatch of a non-empty line, the error report and the
\* reset of the cursor.  st is the status the invoked handler returns.
Complete(s, st) ==
    LET buf1 == [s.buf EXCEPT ![s.index] = NUL]
        nl   == IF (s.ch = CR \/ s.ch = LF) /\ input.crLfcmdEnable
                THEN <<Wr("println", 0)>> ELSE <<>>
        r    == CmdLineProcess(buf1, st)
    IN  IF strlen(buf1, 0) > 0
        THEN [buf |-> r.buf, argv |-> r.argv, dispatched |-> TRUE,
              line |-> CStr(buf1, 0), nStatus |-> r.status,
              out |-> s.out \o nl \o
                      (IF errorFunc # NULL THEN <<>> ELSE ErrorMessages(r.status)),
              calls |-> r.calls \o
                        (IF errorFunc # NULL
                         THEN <<ErrCall(errorFunc, r.status)>> ELSE <<>>),
              ev |-> s.out \o nl \o CallMarks(r.calls, 0) \o
                     (IF errorFunc # NULL
                      THEN <<Wr("call", Len(r.calls) + 1)>>
                      ELSE ErrorMessages(r.status))]
        ELSE [buf |-> buf1, argv |-> argv, dispatched |-> FALSE,
              line |-> <<>>, nStatus |-> 0, out |-> s.out, calls |-> <<>>,
              ev |-> s.out]

\* An empty poll that also drops the partial line
NoInput_DropsLine(o) ==
    /\ ret' = 0
    /\ obs' = [o EXCEPT !.how = "empty"]
    /\ input' = [input EXCEPT !.index = 0]
    /\ lineBytes' = <<>>
    /\ UNCHANGED <<argv, rx>>

\* A partial poll that does not keep the cursor
Partial_DropsCursor(o, s) ==
    /\ ret' = 0
    /\ input' = [input EXCEPT !.index = input.index, !.g_cCmdBuf = s.buf]
    /\ rx' = s.rx
    /\ lineBytes' = lineBytes \o s.read
    /\ obs' = [o EXCEPT !.how = s.how, !.idx1 = s.index, !.nread = s.nread,
                        !.raw = lineBytes \o s.read, !.out = s.out,
                        !.ev = s.out, !.wr = s.wr, !.ch = s.ch]
    /\ UNCHANGED argv

\* lines 121-124: nothing available, return 0
NoInput(o) ==
    /\ ret' = 0
    /\ obs' = [o EXCEPT !.how = "empty"]
    /\ UNCHANGED <<input, argv, rx, lineBytes>>

\* line 169: the stream ran empty during the scan s, return 0
Partial(o, s) ==
    /\ ret' = 0
    /\ input' = [input EXCEPT !.index = s.index, !.g_cCmdBuf = s.buf]
    /\ rx' = s.rx
    /\ lineBytes' = lineBytes \o s.read
    /\ obs' = [o EXCEPT !.how = s.how, !.idx1 = s.index, !.nread = s.nread,
                        !.raw = lineBytes \o s.read, !.out = s.out,
                        !.ev = s.out, !.wr = s.wr, !.ch = s.ch]
    /\ UNCHANGED argv

\* A completion that leaves the cursor where the scan ended
Finish_KeepsCursor(o, s, c) ==
    /\ ret' = 1
    /\ input' = [input EXCEPT !.index = s.index, !.g_cCmdBuf = c.buf]
    /\ argv' = c.argv
    /\ rx' = s.rx
    /\ lineBytes' = lineBytes \o s.read
    /\ obs' = [o EXCEPT !.how = s.how, !.idx1 = s.index, !.nread = s.nread,
                        !.raw = lineBytes \o s.read, !.out = c.out,
                        !.calls = c.calls, !.ev = c.ev, !.wr = s.wr, !.nul = {s.index},
                        !.dispatched = c.dispatched, !.line = c.line,
                        !.nStatus = c.nStatus, !.ch = s.ch]

\* lines 172-226: the scan s ended by "break" or by its loop condition; c is
\* what Complete made of it; return 1
Finish(o, s, c) ==
    /\ ret' = 1
    /\ input' = [input EXCEPT !.index = 0, !.g_cCmdBuf = c.buf]
    /\ argv' = c.argv
    /\ rx' = s.rx
    /\ lineBytes' = <<>>
    /\ obs' = [o EXCEPT !.how = s.how, !.idx1 = s.index, !.nread = s.nread,
                        !.raw = lineBytes \o s.read, !.out = c.out,
                        !.calls = c.calls, !.ev = c.ev, !.wr = s.wr, !.nul = {s.index},
                        !.dispatched = c.dispatched, !.line = c.line,
                        !.nStatus = c.nStatus, !.ch = s.ch]

\* int8_t DoCmdLine(void); st is the status the invoked handler returns
DoCmdLine(st) ==
    LET s0 == [i |-> input.index, index |-> input.index, buf |-> input.g_cCmdBuf,
               rx |-> rx, ch |-> NUL, nread |-> 0, read |-> <<>>, out |-> <<>>,
               wr |-> {}, brk |-> FALSE, how |-> "run"]
        s  == ScanLoop(s0)
        o  == [NoObs EXCEPT !.idx0 = input.index, !.idx1 = input.index]
    IN  /\ op' = "DoCmdLine"
        /\ UNCHANGED <<delimiter, terminators, defaultFunc, errorFunc, nArr, nCfg,
                       param, retval>>
        /\ IF Len(rx) = 0 THEN NoInput(o)
           ELSE IF s.how = "drained" THEN Partial(o, s)
           ELSE Finish(o, s, Complete(s, st))

\* ------------------------------------------------------------------------
\* The other operations of the class
\* ------------------------------------------------------------------------
\* a step of an operation that is not DoCmdLine
Other(name) ==
    /\ op' = name /\ ret' = -1 /\ obs' = NoObs
    /\ UNCHANGED <<param, retval>>

Setter(name) ==
    /\ nCfg < MaxCfg
    /\ nCfg' = nCfg + 1
    /\ Other(name)
    /\ UNCHANGED <<rx, nArr, lineBytes, argv>>

\* A flush that empties the buffer but keeps the cursor
FlushReceive_KeepsCursor ==
    /\ input' = [input EXCEPT !.g_cCmdBuf[0] = NUL]
    /\ lineBytes' = <<>>
    /\ op' = "FlushReceive" /\ ret' = -1 /\ obs' = [NoObs EXCEPT !.nul = {0}]
    /\ UNCHANGED <<argv, delimiter, terminators, defaultFunc, errorFunc, rx, nArr,
                   nCfg, param, retval>>

\* void FlushReceive(void)
FlushReceive ==
    /\ input' = [input EXCEPT !.index = 0, !.g_cCmdBuf[0] = NUL]
    /\ lineBytes' = <<>>
    /\ op' = "FlushReceive" /\ ret' = -1 /\ obs' = [NoObs EXCEPT !.nul = {0}]
    /\ UNCHANGED <<argv, delimiter, terminators, defaultFunc, errorFunc, rx, nArr,
                   nCfg, param, retval>>

\* void Echo(bool _echoEnable)
Echo(b) ==
    /\ Setter("Echo")
    /\ input' = [input EXCEPT !.echoEnable = b]
    /\ UNCHANGED <<delimiter, terminators, defaultFunc, errorFunc>>

\* void CrLfEcho(bool _echoEnable)
CrLfEcho(b) ==
    /\ Setter("CrLfEcho")
    /\ input' = [input EXCEPT !.crLfechoEnable = b]
    /\ UNCHANGED <<delimiter, terminators, defaultFunc, errorFunc>>

\* void CrLfCommand(bool _crLfcmdEnable)
CrLfCommand(b) ==
    /\ Setter("CrLfCommand")
    /\ input' = [input EXCEPT !.crLfcmdEnable = b]
    /\ UNCHANGED <<delimiter, terminators, defaultFunc, errorFunc>>

\* void Delimiter(char _delimiter)
Delimiter(c) ==
    /\ Setter("Delimiter")
    /\ delimiter' = c
    /\ UNCHANGED <<input, terminators, defaultFunc, errorFunc>>

\* void Terminators(char * _terminators)
Terminators(t) ==
    /\ Setter("Terminators")
    /\ terminators' = strncpy2(t)
    /\ UNCHANGED <<input, delimiter, defaultFunc, errorFunc>>

\* void SetDefaultHandler(pfnCmdLine function)
SetDefaultHandler(f) ==
    /\ Setter("SetDefaultHandler")
    /\ defaultFunc' = f
    /\ UNCHANGED <<input, delimiter, terminators, errorFunc>>

\* void SetCustomErrorHandler(pfnCustomErrs function)
SetCustomErrorHandler(f) ==
    /\ Setter("SetCustomErrorHandler")
    /\ errorFunc' = f
    /\ UNCHANGED <<input, delimiter, terminators, defaultFunc>>

\* ------------------------------------------------------------------------
\* The environment: what the stream delivers and what the embedder passes
\* ------------------------------------------------------------------------
COMMA == 44
SEMI == 59
\* raw bytes the stream delivers one at a time: 'a', CR, LF, BS, ';', NUL and
\* 0x80 (a byte whose low 7 bits are NUL)
ByteAlphabet == {97, CR, LF, CHAR_BS, SEMI, NUL, 128}
DelimiterArgs == {SPACE, COMMA}
TerminatorArgs == {<<SEMI>>, <<CR, LF>>}
DefaultHandlerArgs == {NULL, "DefaultCmd"}
ErrorHandlerArgs == {NULL, "CustomErr"}

\* the stream receives one more byte, while fewer than max have arrived
Arrive(b, max) ==
    /\ nArr < max
    /\ nArr' = nArr + 1
    /\ rx' = Append(rx, b)
    /\ Other("Arrive")
    /\ UNCHANGED <<input, argv, delimiter, terminators, defaultFunc, errorFunc,
                   lineBytes, nCfg>>

ArriveByte(b) == Arrive(b, MaxBytes)

\* ------------------------------------------------------------------------
\* Construction (the constructors and SetDefaults) and the specifications
\* ------------------------------------------------------------------------
\* what the cells of the line buffer hold before the first write: the
\* constructors leave g_cCmdBuf as it was (zeroes in a static object, anything
\* in an automatic one)
BufferFill == {NUL, 97}

\* SetDefaults(_echoEnable), on an object whose buffer holds fill
SetDefaults(e, fill) ==
    /\ input = [echoEnable |-> e, crLfechoEnable |-> FALSE, crLfcmdEnable |-> TRUE,
                index |-> 0,
                g_cCmdBuf |-> [c \in 0..(CMD_BUF_SIZE - 1) |-> fill]]
    /\ argv = [k \in 0..(CMDLINE_MAX_ARGS - 1) |-> 0]
    /\ delimiter = SPACE
    /\ terminators = strncpy2(<<CR>>)
    /\ defaultFunc = NULL
    /\ errorFunc = NULL

\* CommandLine(Stream& _serial), which enables echo; nothing received yet
Init ==
    /\ \E fill \in BufferFill : SetDefaults(TRUE, fill)
    /\ rx = <<>>
    /\ op = "construct" /\ ret = -1 /\ obs = NoObs
    /\ lineBytes = <<>>
    /\ nArr = 0 /\ nCfg = 0
    /\ param = <<>> /\ retval = 0

\* Polls, flushes and terminator changes over bytes that arrive one at a time.
\* No handler is installed and no name of the command table can be typed over
\* ByteAlphabet, so no handler runs and the status one would return is moot.
Next ==
    \/ DoCmdLine(0)
    \/ FlushReceive
    \/ \E t \in TerminatorArgs : Terminators(t)
    \/ \E b \in ByteAlphabet : ArriveByte(b)

Spec == Init /\ [][Next]_vars

\* ------------------------------------------------------------------------
\* Dispatch of whole lines: the stream holds one line, ended by CR or by
\* ';', when polling starts
\* ------------------------------------------------------------------------
QUOTE == 34
\* 'a', ' ' and ','
LineAlphabet == {97, SPACE, COMMA}
TokenLines == UNION {[1..n -> LineAlphabet] : n \in 1..MaxLineLen}

\* "LIST", "list", "List", "lis", "listx", "ADD a", "add a,a", " add",
\* "add 1 2", "add "a  a"" (with the quotes), and the empty line
CommandLines ==
    { <<>>, <<76, 73, 83, 84>>, <<108, 105, 115, 116>>, <<76, 105, 115, 116>>,
      <<108, 105, 115>>, <<108, 105, 115, 116, 120>>,
      <<65, 68, 68, SPACE, 97>>, <<97, 100, 100, SPACE, 97, COMMA, 97>>,
      <<SPACE, 97, 100, 100>>, <<97, 100, 100, SPACE, 49, SPACE, 50>>,
      <<97, 100, 100, SPACE, QUOTE, 97, SPACE, SPACE, 97, QUOTE>> }

\* the word w followed by n times " a"
RECURSIVE WithArgs(_, _)
WithArgs(w, n) == IF n = 0 THEN w ELSE WithArgs(w, n - 1) \o <<SPACE, 97>>

\* lines of CMDLINE_MAX_ARGS - 1, CMDLINE_MAX_ARGS and CMDLINE_MAX_ARGS + 1
\* tokens, with a first token that is "add", "LIST" or unknown ("a")
ManyArgLines ==
    { WithArgs(w, n) : w \in {<<97>>, <<97, 100, 100>>, <<76, 73, 83, 84>>},
                       n \in (CMDLINE_MAX_ARGS - 2)..CMDLINE_MAX_ARGS }

\* "add a;", "add a ;", "list;" and ";": lines for the terminator ';'
SemiLines ==
    { <<97, 100, 100, SPACE, 97, SEMI>>, <<97, 100, 100, SPACE, 97, SPACE, SEMI>>,
      <<108, 105, 115, 116, SEMI>>, <<SEMI>> }

DispatchInputs ==
    { l \o <<CR>> : l \in TokenLines \cup CommandLines \cup ManyArgLines }
        \cup SemiLines

InitDispatch ==
    /\ \E fill \in BufferFill : SetDefaults(TRUE, fill)
    /\ rx \in DispatchInputs
    /\ op = "construct" /\ ret = -1 /\ obs = NoObs
    /\ lineBytes = <<>>
    /\ nArr = 0 /\ nCfg = 0
    /\ param = <<>> /\ retval = 0

NextDispatch ==
    \/ \E st \in HandlerStatus : DoCmdLine(st)
    \/ \E c \in DelimiterArgs : Delimiter(c)
    \/ \E t \in TerminatorArgs : Terminators(t)
    \/ \E f \in DefaultHandlerArgs : SetDefaultHandler(f)
    \/ \E f \in ErrorHandlerArgs : SetCustomErrorHandler(f)
    \/ \E b \in BOOLEAN : CrLfCommand(b)

SpecDispatch == InitDispatch /\ [][NextDispatch]_vars

\* ------------------------------------------------------------------------
\* Long input: the stream holds a run about as long as the line buffer when
\* polling starts, and single bytes follow
\* ------------------------------------------------------------------------
\* n times the byte b
Rep(b, n) == [k \in 1..n |-> b]

\* runs of 'a', of 'a' then LFs, and of 'a' then backspaces, of ScanLimit - 1
\* to ScanLimit + 1 bytes
LongInputs ==
    UNION { { Rep(97, n), <<97>> \o Rep(LF, n - 1), <<97, 97>> \o Rep(CHAR_BS, n - 2) } :
            n \in (ScanLimit - 1)..(ScanLimit + 1) }

\* 'a', CR and 0x80
LongAlphabet == {97, CR, 128}

ArriveTail(b) == Arrive(b, MaxTail)

InitLong ==
    /\ \E fill \in BufferFill : SetDefaults(TRUE, fill)
    /\ rx \in LongInputs
    /\ op = "construct" /\ ret = -1 /\ obs = NoObs
    /\ lineBytes = <<>>
    /\ nArr = 0 /\ nCfg = 0
    /\ param = <<>> /\ retval = 0

NextLong ==
    \/ DoCmdLine(0)
    \/ FlushReceive
    \/ \E t \in TerminatorArgs : Terminators(t)
    \/ \E b \in LongAlphabet : ArriveTail(b)

SpecLong == InitLong /\ [][NextLong]_vars


\* ------------------------------------------------------------------------
\* The notions the properties are stated in, defined without reference to
\* the way the code computes them
\* ------------------------------------------------------------------------
\* the positions of l at which a maximal run of non-delimiter characters starts
TokenStarts(l, d) ==
    {i \in 1..Len(l) : l[i] # d /\ (i = 1 \/ l[i - 1] = d)}

\* the position at which the run that starts at i ends
TokenEnd(l, d, i) ==
    CHOOSE j \in i..Len(l) :
        /\ \A k \in i..j : l[k] # d
        /\ (j = Len(l) \/ l[j + 1] = d)

\* the split of l on d: its maximal runs of non-delimiter characters, left to
\* right (no run is empty)
Split(l, d) ==
    LET st     == TokenStarts(l, d)
        nth(k) == CHOOSE i \in st : Cardinality({j \in st : j < i}) = k - 1
    IN  [k \in 1..Cardinality(st) |-> SubSeq(l, nth(k), TokenEnd(l, d, nth(k)))]

\* ASCII case folding, and equality of two names under it
Fold(c) == IF c \in 65..90 THEN c + 32 ELSE c
SameName(a, b) ==
    /\ Len(a) = Len(b)
    /\ \A k \in 1..Len(a) : Fold(a[k]) = Fold(b[k])

\* the table entries (before the sentinel) whose name equals tok under case
\* folding, and the first of them
Matches(tok) ==
    {e \in 1..(Len(g_sCmdTable) - 1) : SameName(tok, g_sCmdTable[e].pcCmd)}
FirstMatch(tok) ==
    CHOOSE e \in Matches(tok) : \A f \in Matches(tok) : e <= f

\* what one received byte does to the text typed so far: a backspace erases
\* the last character, a line feed is dropped, any other byte is appended
EditOne(text, c) ==
    IF c = CHAR_BS
    THEN IF text = <<>> THEN text ELSE SubSeq(text, 1, Len(text) - 1)
    ELSE IF c = LF THEN text
    ELSE Append(text, c)

\* the text that the bytes lo..hi of a byte sequence make of the text acc
RECURSIVE EditRange(_, _, _, _)
EditRange(acc, bytes, lo, hi) ==
    IF lo > hi THEN acc
    ELSE IF lo = hi THEN EditOne(acc, bytes[lo])
    ELSE LET mid == (lo + hi) \div 2
             m   == EditRange(acc, bytes, lo, mid)
         IN  IF m = <<>> THEN EditRange(<<>>, bytes, mid + 1, hi)
             ELSE EditRange(m, bytes, mid + 1, hi)

\* the text a sequence of non-terminator bytes leaves in an empty buffer
Edited(bytes) == EditRange(<<>>, bytes, 1, Len(bytes))

\* a text read as a C string: its characters before the first NUL
CutNul(text) ==
    LET nuls == {k \in 1..Len(text) : text[k] = NUL}
    IN  IF nuls = {} THEN text
        ELSE SubSeq(text, 1, (CHOOSE k \in nuls : \A j \in nuls : k <= j) - 1)

\* the line that bytes ending in a terminator spell: the terminator belongs
\* to the line unless it is CR or LF
ExpectedLine(bytes) ==
    LET n    == Len(bytes)
        text == Edited(SubSeq(bytes, 1, n - 1))
    IN  CutNul(IF bytes[n] = CR \/ bytes[n] = LF THEN text
               ELSE Append(text, bytes[n]))

\* the last step was a DoCmdLine call / one that passed a line to CmdLineProcess
Polled == op = "DoCmdLine"
Dispatched == Polled /\ obs.dispatched

\* the command and default handler calls of the last poll (the custom error
\* handler left out)
IsHandlerCall(c) == c.fn \notin ErrorHandlerArgs
Invoked == SelectSeq(obs.calls, IsHandlerCall)

\* the line the bytes of the last poll spell, and its tokens
ReceivedLine == ExpectedLine(obs.raw)
Tokens == Split(ReceivedLine, delimiter)

\* ------------------------------------------------------------------------
\* Properties of the tokenizer and the dispatcher (SpecDispatch: every line
\* is shorter than the buffer)
\* ------------------------------------------------------------------------
\* C1: the argv/argc a handler is invoked with are the split of the received
\* line on the configured delimiter, left to right: the maximal runs of
\* non-delimiter characters, none of them empty, quotes being ordinary
\* characters.  (The received line is the text the terminator ended, and
\* includes the terminator when that is not CR or LF.)
C1_ArgsAreTheSplit ==
    Dispatched =>
        \A k \in 1..Len(Invoked) :
            /\ Invoked[k].args = Split(ReceivedLine, delimiter)
            /\ Invoked[k].argc = Len(Split(ReceivedLine, delimiter))

\* the line  add "a  a"  reached Cmd_add as the three words  add  "a  a"
C1_Witness ==
    /\ Dispatched
    /\ Len(Invoked) = 1
    /\ Invoked[1].fn = "Cmd_add"
    /\ Invoked[1].argc = 3
    /\ Invoked[1].args = << <<97, 100, 100>>, <<QUOTE, 97>>, <<97, QUOTE>> >>

\* C2: a line of 1 to CMDLINE_MAX_ARGS tokens whose first token equals the
\* name of a table entry under ASCII case folding invokes exactly one
\* handler, that of the first such entry in table order, with (argc, argv),
\* and CmdLineProcess returns the status the handler returned.
C2_FirstMatchWins ==
    (/\ Dispatched
     /\ Len(Tokens) \in 1..CMDLINE_MAX_ARGS
     /\ Matches(Tokens[1]) # {}) =>
        /\ Len(Invoked) = 1
        /\ Invoked[1].fn = g_sCmdTable[FirstMatch(Tokens[1])].pfnCmd
        /\ Invoked[1].argc = Len(Tokens)
        /\ Invoked[1].args = Tokens
        /\ obs.nStatus = Invoked[1].rv

\* the line  list  invoked the handler of the entry "LIST", not that of the
\* later entry "list", and its status 5 came back
C2_Witness ==
    /\ Dispatched
    /\ Len(Invoked) = 1
    /\ Invoked[1].fn = "Cmd_LIST"
    /\ Invoked[1].args = << <<108, 105, 115, 116>> >>
    /\ obs.nStatus = 5

\* C3: a line of 1 to CMDLINE_MAX_ARGS tokens whose first token matches no
\* table entry returns CMDLINE_BAD_CMD and invokes no handler when no default
\* handler is installed; otherwise it invokes the default handler exactly
\* once with the whole token vector and returns the status it returned.
C3_UnknownCommand ==
    (/\ Dispatched
     /\ Len(Tokens) \in 1..CMDLINE_MAX_ARGS
     /\ Matches(Tokens[1]) = {}) =>
        IF defaultFunc = NULL
        THEN /\ obs.nStatus = CMDLINE_BAD_CMD
             /\ Invoked = <<>>
        ELSE /\ Len(Invoked) = 1
             /\ Invoked[1].fn = defaultFunc
             /\ Invoked[1].argc = Len(Tokens)
             /\ Invoked[1].args = Tokens
             /\ obs.nStatus = Invoked[1].rv

\* the line  lis  went to the installed default handler as argv[0], and the
\* status it returned came back
C3_Witness ==
    /\ Dispatched
    /\ defaultFunc = "DefaultCmd"
    /\ Len(Invoked) = 1
    /\ Invoked[1].fn = "DefaultCmd"
    /\ Invoked[1].args = << <<108, 105, 115>> >>
    /\ obs.nStatus = CMDLINE_TOO_FEW_ARGS

\* C4: a line of more than CMDLINE_MAX_ARGS tokens returns
\* CMDLINE_TOO_MANY_ARGS and invokes neither a table handler nor the default
\* handler, whatever its first token; a line of exactly CMDLINE_MAX_ARGS
\* tokens is dispatched with argc = CMDLINE_MAX_ARGS.
C4_TooManyArgs ==
    Dispatched =>
        /\ Len(Tokens) > CMDLINE_MAX_ARGS =>
              /\ obs.nStatus = CMDLINE_TOO_MANY_ARGS
              /\ Invoked = <<>>
        /\ (/\ Len(Tokens) = CMDLINE_MAX_ARGS
            /\ (Matches(Tokens[1]) # {} \/ defaultFunc # NULL)) =>
              /\ Len(Invoked) = 1
              /\ Invoked[1].argc = CMDLINE_MAX_ARGS
              /\ Invoked[1].args = Tokens

\* a line of 11 tokens that begins with the valid command  add  was refused
C4_Witness ==
    /\ Dispatched
    /\ Len(Tokens) = CMDLINE_MAX_ARGS + 1
    /\ Tokens[1] = <<97, 100, 100>>
    /\ obs.nStatus = CMDLINE_TOO_MANY_ARGS
    /\ obs.calls = <<>>

\* ------------------------------------------------------------------------
\* Properties of the line assembler
\* ------------------------------------------------------------------------
\* C5: a poll that finds the stream empty before it has read a terminator
\* returns 0 and invokes no handler, and the buffer then holds, below the
\* cursor, the text that all the bytes received since the last reset spell,
\* whatever polls they were read in; so a line of fewer than 79 bytes that
\* ends in a terminator is dispatched as the text its bytes spell, however
\* they were split across polls.
C5_PartialLineKept ==
    /\ (Polled /\ obs.how = "drained") =>
          /\ ret = 0
          /\ obs.calls = <<>>
          /\ ~obs.dispatched
          /\ input.index = Len(Edited(obs.raw))
          /\ \A k \in 1..input.index :
                input.g_cCmdBuf[k - 1] = Edited(obs.raw)[k]
    /\ (Polled /\ obs.how = "term" /\ Len(obs.raw) < CMD_BUF_SIZE - 1) =>
          /\ ret = 1
          /\ obs.line = ExpectedLine(obs.raw)
          /\ obs.dispatched = (ExpectedLine(obs.raw) # <<>>)

\* the line  aa  was dispatched by a poll that read only the end of it, the
\* beginning having been read by an earlier poll
C5_Witness ==
    /\ Polled
    /\ obs.how = "term"
    /\ obs.idx0 > 0
    /\ obs.nread < Len(obs.raw)
    /\ obs.dispatched
    /\ obs.line = <<97, 97>>

\* C6: a poll made while no byte is available returns 0 and changes neither
\* the line buffer, the cursor, argv nor the configuration, writes nothing
\* to the stream and invokes no handler.
C6_EmptyPollIsNoOp ==
    [][ (op' = "DoCmdLine" /\ rx = <<>>) =>
            /\ ret' = 0
            /\ UNCHANGED <<input, argv, delimiter, terminators, defaultFunc,
                           errorFunc, rx>>
            /\ obs'.out = <<>>
            /\ obs'.calls = <<>> ]_vars

\* a poll found no byte available while a partial line was buffered
C6_Witness ==
    /\ Polled
    /\ obs.how = "empty"
    /\ ret = 0
    /\ input.index > 0

\* C7: the cursor is always within 0..CMD_BUF_SIZE-1, every content or
\* terminator byte is written at a cell <= CMD_BUF_SIZE-2, and the
\* terminating NUL at a cell <= CMD_BUF_SIZE-1.
C7_CursorInBounds ==
    /\ input.index \in 0..(CMD_BUF_SIZE - 1)
    /\ obs.idx1 \in 0..(CMD_BUF_SIZE - 1)
    /\ obs.wr \subseteq 0..(CMD_BUF_SIZE - 2)
    /\ obs.nul \subseteq 0..(CMD_BUF_SIZE - 1)

\* a poll wrote a character to the cell CMD_BUF_SIZE-2 and the terminating
\* NUL to the last cell
C7_Witness ==
    /\ Polled
    /\ (CMD_BUF_SIZE - 2) \in obs.wr
    /\ obs.nul = {CMD_BUF_SIZE - 1}

\* the scan of the last poll filled the buffer: it ended with the cursor at
\* CMD_BUF_SIZE-1 and not by reading a terminator
Filled == Polled /\ obs.how # "term" /\ obs.idx1 = CMD_BUF_SIZE - 1

\* C8 as stated: a poll whose scan fills the buffer without a terminator
\* does not return 1, does not dispatch the buffered text and does not reset
\* the cursor.
C8_AsStated ==
    Filled => (ret # 1 /\ ~obs.dispatched /\ input.index = obs.idx1)

\* C8: a poll whose scan fills the buffer without a terminator treats the
\* buffered text as a completed line: it writes the NUL to the last cell,
\* passes the text (when it is non-empty as a C string) to CmdLineProcess,
\* resets the cursor to 0 and returns 1.
C8_FullBufferCompletes ==
    Filled =>
        /\ ret = 1
        /\ input.index = 0
        /\ obs.nul = {CMD_BUF_SIZE - 1}
        /\ obs.line = CutNul(Edited(obs.raw))
        /\ obs.dispatched = (obs.line # <<>>)

\* a poll dispatched a line of CMD_BUF_SIZE-1 characters no terminator ended
C8_Witness ==
    /\ Filled
    /\ ret = 1
    /\ obs.dispatched
    /\ Len(obs.line) = CMD_BUF_SIZE - 1
    /\ ~IsTerminator(obs.ch)

\* C9 as stated: while fewer than CMD_BUF_SIZE-1 characters are buffered, a
\* poll completes a line only by reading a terminator (backspaces and
\* dropped line feeds do not end the scan or the line).
C9_AsStated ==
    (Polled /\ ret = 1) => (obs.how = "term" \/ obs.idx1 >= CMD_BUF_SIZE - 1)

\* C10 as stated: a byte completes the line only if, masked to 7 bits, it is
\* one of the characters of the configured terminator string.
C10_AsStated ==
    (Polled /\ obs.how = "term") =>
        obs.ch \in ({terminators[k] : k \in 0..(CMDLINE_MAX_TERMINATORS - 1)}
                    \ {NUL})

\* the masked bytes a DoCmdLine step takes from the stream
Consumed == [k \in 1..(Len(rx) - Len(rx')) |-> Mask7(rx[k])]

\* the stream holds backspaces only
OnlyBackspaces == rx # <<>> /\ \A k \in 1..Len(rx) : Mask7(rx[k]) = CHAR_BS

\* C11: a poll that consumes n backspaces (backspace not being a terminator)
\* moves the cursor back by n, stopping at 0: each one removes the most
\* recently buffered character if there is one; the cursor never wraps and
\* the characters left below it are unchanged.
C11_BackspaceErasesLast ==
    [][ (op' = "DoCmdLine" /\ OnlyBackspaces /\ ~IsTerminator(CHAR_BS)) =>
            /\ rx' = <<>>
            /\ input'.index =
                  (IF input.index >= Len(rx) THEN input.index - Len(rx) ELSE 0)
            /\ \A k \in 0..(input'.index - 1) :
                  input'.g_cCmdBuf[k] = input.g_cCmdBuf[k] ]_vars

\* a poll read one backspace with two characters buffered and left one
C11_Witness ==
    /\ Polled
    /\ obs.ch = CHAR_BS
    /\ obs.nread = 1
    /\ obs.idx0 = 2
    /\ obs.idx1 = 1
    /\ input.index = 1

\* ------------------------------------------------------------------------
\* Several lines: the stream holds two CR-terminated lines when polling
\* starts
\* ------------------------------------------------------------------------
\* "LIST", "lis", "add a", "a", the empty line, and a line of
\* CMDLINE_MAX_ARGS + 1 tokens
StreamLines ==
    { <<76, 73, 83, 84>>, <<108, 105, 115>>, <<97, 100, 100, SPACE, 97>>,
      <<97>>, <<>>, WithArgs(<<97>>, CMDLINE_MAX_ARGS) }

LinesInputs == { a \o <<CR>> \o b \o <<CR>> : a, b \in StreamLines }

InitLines ==
    /\ \E fill \in BufferFill : SetDefaults(TRUE, fill)
    /\ rx \in LinesInputs
    /\ op = "construct" /\ ret = -1 /\ obs = NoObs
    /\ lineBytes = <<>>
    /\ nArr = 0 /\ nCfg = 0
    /\ param = <<>> /\ retval = 0

NextLines ==
    \/ \E st \in HandlerStatus : DoCmdLine(st)
    \/ \E f \in DefaultHandlerArgs : SetDefaultHandler(f)
    \/ \E f \in ErrorHandlerArgs : SetCustomErrorHandler(f)

SpecLines == InitLines /\ [][NextLines]_vars

\* C12: every DoCmdLine call that returns 1 leaves the cursor at 0, whatever
\* the status of the dispatch; and a line completed by a poll that began with
\* the cursor at 0 is the text that the bytes of that poll spell, with no
\* character of an earlier line.
C12_CursorResetAfterLine ==
    [][ (op' = "DoCmdLine" /\ ret' = 1) =>
            /\ input'.index = 0
            /\ (input.index = 0 /\ obs'.how = "term") =>
                  /\ obs'.line = ExpectedLine(Consumed)
                  /\ obs'.dispatched = (ExpectedLine(Consumed) # <<>>) ]_vars

\* the line  a  was dispatched to the default handler, which returned 5,
\* while the buffer still held the end of the earlier line  LIST
C12_Witness ==
    /\ Polled
    /\ ret = 1
    /\ input.index = 0
    /\ obs.line = <<97>>
    /\ obs.nStatus = 5
    /\ input.g_cCmdBuf[2] = 83
    /\ input.g_cCmdBuf[3] = 84

\* the built-in error messages among the stream writes of the last poll
IsMessage(w) == w.t \notin {"write", "println"}
Messages == SelectSeq(obs.out, IsMessage)

\* the last poll completed a line by reading a terminator
Completed == Polled /\ ret = 1 /\ obs.how = "term"

\* a line without tokens took the unknown-command path: the default handler
\* was called with argc = 0 if one is installed, else the bad-command status
\* was produced and reported (to the custom error handler or as a message)
TookUnknownPath ==
    /\ obs.dispatched
    /\ IF defaultFunc # NULL
       THEN /\ Len(Invoked) = 1
            /\ Invoked[1].fn = defaultFunc
            /\ Invoked[1].argc = 0
            /\ Invoked[1].args = <<>>
            /\ obs.nStatus = Invoked[1].rv
       ELSE /\ Invoked = <<>>
            /\ obs.nStatus = CMDLINE_BAD_CMD
            /\ IF errorFunc # NULL
               THEN obs.calls = <<ErrCall(errorFunc, CMDLINE_BAD_CMD)>>
               ELSE Messages = <<Wr("BadCommand", 0)>>

\* C13 as stated: every completed line is passed to the dispatcher, and one
\* that yields no token (the empty line included) takes the unknown-command
\* path.
C13_AsStated ==
    (Completed /\ Tokens = <<>>) => TookUnknownPath

\* C13: a completed line that is empty is not passed to the dispatcher: no
\* handler is called and nothing is written for it; a completed line that is
\* not empty is passed to it, and one that consists of delimiters only takes
\* the unknown-command path.
C13_EmptyLineSkipped ==
    Completed =>
        /\ ReceivedLine = <<>> =>
              /\ ~obs.dispatched
              /\ obs.calls = <<>>
              /\ Messages = <<>>
              /\ \A k \in 1..Len(obs.out) : obs.out[k].t = "write"
              /\ input.index = 0
        /\ ReceivedLine # <<>> =>
              /\ obs.dispatched
              /\ obs.line = ReceivedLine
              /\ Tokens = <<>> => TookUnknownPath

\* a CR arrived with nothing buffered while a default handler was installed,
\* and the poll returned 1 without calling it
C13_Witness ==
    /\ Completed
    /\ obs.raw = <<CR>>
    /\ defaultFunc = "DefaultCmd"
    /\ ~obs.dispatched
    /\ obs.calls = <<>>
    /\ obs.out = <<>>

\* C14: with no custom error handler installed, a dispatch is followed by
\* exactly the built-in message of its status: bad command for -1, too many
\* arguments for -2, too few arguments for -3, invalid argument for -4, the
\* generic message with the number for any other non-zero status, and no
\* message for 0, whether the dispatcher or a handler produced the status.
C14_BuiltInMessages ==
    (Dispatched /\ errorFunc = NULL) =>
        /\ obs.calls = Invoked
        /\ Messages =
              CASE obs.nStatus = 0  -> <<>>
                [] obs.nStatus = -1 -> <<Wr("BadCommand", 0)>>
                [] obs.nStatus = -2 -> <<Wr("TooManyArgs", 0)>>
                [] obs.nStatus = -3 -> <<Wr("TooFewArgs", 0)>>
                [] obs.nStatus = -4 -> <<Wr("InvalidArg", 0)>>
                [] OTHER -> <<Wr("ErrorCode", 0), Wr("printlnInt", obs.nStatus)>>

\* a command handler returned -4 and the invalid-argument message was written
C14_Witness ==
    /\ Dispatched
    /\ errorFunc = NULL
    /\ Len(Invoked) = 1
    /\ Invoked[1].fn = "Cmd_add"
    /\ Invoked[1].rv = CMDLINE_INVALID_ARG
    /\ Messages = <<Wr("InvalidArg", 0)>>

\* the calls of the custom error handler made by the last poll
IsErrorCall(c) == c.fn \in ErrorHandlerArgs
ErrorCalls == SelectSeq(obs.calls, IsErrorCall)

\* C15: while a custom error handler is installed, every dispatched line
\* results in exactly one call of it, made after the command or default
\* handler returned, with the status of the dispatch whatever its value
\* (0 included), and no built-in message is written.
C15_CustomErrorHandler ==
    (Dispatched /\ errorFunc # NULL) =>
        /\ ErrorCalls = <<ErrCall(errorFunc, obs.nStatus)>>
        /\ obs.calls = Invoked \o ErrorCalls
        /\ Messages = <<>>

\* the handler of  add  returned 0 and the custom error handler was called
\* with 0
C15_Witness ==
    /\ Dispatched
    /\ errorFunc = "CustomErr"
    /\ Len(Invoked) = 1
    /\ Invoked[1].rv = 0
    /\ obs.calls = <<Invoked[1], ErrCall("CustomErr", 0)>>
    /\ Messages = <<>>

\* ------------------------------------------------------------------------
\* Echo and the newline before dispatch: bytes arrive one at a time while
\* the echo flags, the newline flag and the terminators are set
\* ------------------------------------------------------------------------
\* 'a' with the high bit set, CR, LF, BS and ';'
EchoAlphabet == {225, CR, LF, CHAR_BS, SEMI}

ArriveEcho(b) == Arrive(b, MaxBytes)

\* CommandLine(Stream& _serial, bool _echoEnable)
InitEcho ==
    /\ \E e \in BOOLEAN : SetDefaults(e, NUL)
    /\ rx = <<>>
    /\ op = "construct" /\ ret = -1 /\ obs = NoObs
    /\ lineBytes = <<>>
    /\ nArr = 0 /\ nCfg = 0
    /\ param = <<>> /\ retval = 0

NextEcho ==
    \/ DoCmdLine(0)
    \/ \E b \in BOOLEAN : Echo(b)
    \/ \E b \in BOOLEAN : CrLfEcho(b)
    \/ \E b \in BOOLEAN : CrLfCommand(b)
    \/ \E t \in TerminatorArgs : Terminators(t)
    \/ \E b \in EchoAlphabet : ArriveEcho(b)

SpecEcho == InitEcho /\ [][NextEcho]_vars

\* the masked bytes the last poll read, in order
PollBytes == SubSeq(obs.raw, Len(obs.raw) - obs.nread + 1, Len(obs.raw))

\* the echo writes of the last poll
IsEchoWrite(w) == w.t = "write"
Echoes == SelectSeq(obs.out, IsEchoWrite)

\* a byte that is to be echoed under the flags in force
ShouldEcho(c) ==
    input.echoEnable /\ ((c # CR /\ c # LF) \/ input.crLfechoEnable)
EchoOf(bytes) ==
    LET e == SelectSeq(bytes, ShouldEcho)
    IN  [k \in 1..Len(e) |-> Wr("write", e[k])]

\* C16: the echo writes of a poll are the 7-bit-masked bytes it read, each
\* once and in order, that echo applies to: all of them when echo and CR/LF
\* echo are enabled, all but CR and LF when only echo is enabled, none when
\* echo is disabled; and they precede every other write or call of the poll.
C16_Echo ==
    Polled =>
        /\ Echoes = EchoOf(PollBytes)
        /\ SubSeq(obs.ev, 1, Len(Echoes)) = Echoes
        /\ ~input.echoEnable => Echoes = <<>>

\* with echo and CR/LF echo enabled a poll read 0xE1 and CR: it echoed 'a'
\* and CR, then wrote the newline and the bad-command message
C16_Witness ==
    /\ Polled
    /\ input.echoEnable
    /\ input.crLfechoEnable
    /\ obs.nread = 2
    /\ obs.ev = <<Wr("write", 97), Wr("write", CR), Wr("println", 0),
                  Wr("BadCommand", 0)>>

\* the newlines written before dispatch, among the events of the last poll
IsNewline(w) == w.t = "println"
Newlines == SelectSeq(obs.ev, IsNewline)

\* a handler call or a built-in message among the events of a poll
AfterDispatch(w) == w.t = "call" \/ IsMessage(w)

\* C17: a completed line is followed by one newline exactly when the line is
\* not empty, the byte that completed it was CR or LF and CR/LF-before-dispatch
\* is enabled; otherwise by none.  The newline precedes every handler call and
\* every error message of that poll.
C17_NewlineBeforeDispatch ==
    (Polled /\ ret = 1) =>
        /\ Newlines = (IF obs.line # <<>> /\ (obs.ch = CR \/ obs.ch = LF)
                          /\ input.crLfcmdEnable
                       THEN <<Wr("println", 0)>> ELSE <<>>)
        /\ \A i, j \in DOMAIN obs.ev :
              (IsNewline(obs.ev[i]) /\ AfterDispatch(obs.ev[j])) => i < j

\* "LIST" ended by CR: the echo, the newline, the call of the handler of LIST
\* and the message for the status 5 it returned, in this order
C17_Witness ==
    /\ Polled /\ ret = 1
    /\ input.crLfcmdEnable
    /\ obs.ch = CR
    /\ obs.line = <<76, 73, 83, 84>>
    /\ obs.nStatus = 5
    /\ Len(obs.calls) = 1
    /\ obs.ev = <<Wr("write", 76), Wr("write", 73), Wr("write", 83),
                  Wr("write", 84), Wr("println", 0), Wr("call", 1),
                  Wr("ErrorCode", 0), Wr("printlnInt", 5)>>

\* ------------------------------------------------------------------------
\* Flush (Spec)
\* ------------------------------------------------------------------------
\* C18: FlushReceive, in any state, leaves the buffer holding the empty string
\* and the cursor at 0; a second flush right after changes nothing more; and a
\* line completed by the poll that follows a flush is spelled by the bytes that
\* poll read alone.
C18_FlushEmpties ==
    [][ /\ op' = "FlushReceive" =>
              /\ input'.index = 0
              /\ input'.g_cCmdBuf[0] = NUL
        /\ (op = "FlushReceive" /\ op' = "FlushReceive") => input' = input
        /\ (op = "FlushReceive" /\ op' = "DoCmdLine" /\ ret' = 1) =>
              /\ obs'.idx0 = 0
              /\ obs'.line = ExpectedLine(Consumed)
              /\ obs'.dispatched = (ExpectedLine(Consumed) # <<>>) ]_vars

\* "aa" was buffered and flushed while CR waits on the stream: the buffer is
\* the empty string with the old 'a' behind it, and the cursor is 0
C18_Witness ==
    /\ op = "FlushReceive"
    /\ input.index = 0
    /\ input.g_cCmdBuf[0] = NUL
    /\ input.g_cCmdBuf[1] = 97
    /\ input.g_cCmdBuf[2] = NUL
    /\ rx = <<CR>>

\* ------------------------------------------------------------------------
\* ParseParam
\* ------------------------------------------------------------------------
TAB == 9
MINUS == 45

\* isspace(), isdigit(), isxdigit() and toupper() in the C locale
isspace(c) == c = SPACE \/ (c >= 9 /\ c <= 13)
isdigit(c) == c >= 48 /\ c <= 57
isxdigit(c) == isdigit(c) \/ (c >= 65 /\ c <= 70) \/ (c >= 97 /\ c <= 102)
toupper(c) == IF c >= 97 /\ c <= 122 THEN c - 32 ELSE c

\* p[k] of a string held as the sequence of its characters: the terminating
\* NUL follows the last one
CharAt(p, k) == IF k < Len(p) THEN p[k + 1] ELSE NUL

\* int32_t arithmetic on the 16-bit halves of val (val = hi * 2^16 + lo):
\* val * m + d for a small multiplier and digit.  Where the result does not
\* fit (Int32Overflows) the behaviour is undefined, and this is the value of
\* the builds that go on: they keep its low 32 bits (it wraps modulo 2^32)
Int32MulAdd(val, m, d) ==
    LET lo == val % 65536
        hi == val \div 65536
        t  == (lo * m) + d
        h  == (hi * m) + (t \div 65536)
    IN  ((((h + 32768) % 65536) - 32768) * 65536) + (t % 65536)

\* val * m + d does not fit an int32_t: the signed overflow of lines 476-483
\* and 515-516, for a val that is not negative
Int32Overflows(val, m, d) ==
    LET lo == val % 65536
        hi == val \div 65536
    IN  (hi * m) + (((lo * m) + d) \div 65536) > 32767

\* 0 - val as an int32_t
Int32Neg(val) == IF val = (0 - 32768) * 65536 THEN val ELSE 0 - val

\* lines 438-450: param advanced past the leading whitespace
RECURSIVE SkipSpace(_)
SkipSpace(p) ==
    IF CharAt(p, 0) # NUL /\ isspace(CharAt(p, 0)) THEN SkipSpace(Tail(p)) ELSE p

\* lines 477-484: the value of the upper-cased hexadecimal digit ch
HexDigit(ch) == IF isdigit(ch) THEN ch - 48 ELSE (ch - 65) + 10

\* what ParseParam returns, whether and what it stores at *retval, and
\* whether a signed overflow happened on the way (ovf), in which case the
\* behaviour is undefined: type and val are those of a build that wraps,
\* and a build that traps ends the program at the overflow
Parsed(type, wrote, val, ovf) ==
    [type |-> type, wrote |-> wrote, val |-> val, ovf |-> ovf, loops |-> FALSE]

\* The digit loop does not end: its counter is a uint8_t, so after the pass
\* for character 255 "++i" makes it 0 again, which is below strlen(param)
\* as 255 was.  The passes read the same 256 characters as before and val
\* has no part in what they decide, so they accept them again, for ever:
\* nothing is returned and nothing is stored.  Unless val is 0 after the
\* first 256 passes (every digit was '0') the multiplications of the
\* further rounds overflow it, if the first round has not.
Endless(val, ovf) ==
    [type |-> 0, wrote |-> FALSE, val |-> 0, ovf |-> ovf \/ val # 0,
     loops |-> TRUE]

\* A digit loop before its first pass: the uint8_t counter i, val, whether
\* val has overflowed, and how the loop goes on: "run", or it has ended
\* because i reached strlen(param) ("end"), because of a character that is
\* no digit ("bad"), or it will never end ("loops")
LoopStart == [i |-> 0, val |-> 0, ovf |-> FALSE, how |-> "run"]

\* lines 471-490: one evaluation of "i < strlen(param)" and, if it holds, of
\* the body and of "++i", for the characters p after "0x"
HexPass(p, s) ==
    IF s.how # "run" THEN s
    ELSE IF ~(s.i < Len(p)) THEN [s EXCEPT !.how = "end"]
    ELSE LET ch == toupper(CharAt(p, s.i))
         IN  IF ~isxdigit(ch) THEN [s EXCEPT !.how = "bad"]
             ELSE [s EXCEPT !.val = Int32MulAdd(s.val, 16, HexDigit(ch)),
                            !.ovf = @ \/ Int32Overflows(s.val, 16, HexDigit(ch)),
                            !.i   = (@ + 1) % 256,
                            !.how = IF (s.i + 1) % 256 = 0 THEN "loops" ELSE "run"]

\* n evaluations in a row (nothing happens once the loop has ended)
RECURSIVE HexPasses(_, _, _)
HexPasses(p, s, n) ==
    IF n = 0 THEN s
    ELSE IF n = 1 THEN HexPass(p, s)
    ELSE LET m == HexPasses(p, s, n \div 2)
         IN  IF m.how # "run" THEN m ELSE HexPasses(p, m, n - (n \div 2))

\* lines 471-492: the loop over the characters p after "0x" and what follows
\* it.  Every pass but the last moves on by one character and the counter
\* is back at 0 after 256 of them, so Len(p) + 1 evaluations decide it.
HexLoop(p) ==
    LET s == HexPasses(p, LoopStart, Len(p) + 1)
    IN  IF s.how = "end" THEN Parsed(HEXVAL, TRUE, s.val, s.ovf)
        ELSE IF s.how = "bad" THEN Parsed(BADPARAM, FALSE, 0, s.ovf)
        ELSE Endless(s.val, s.ovf)

\* lines 510-522: one evaluation of "i < strlen(param)" and, if it holds, of
\* the body and of "++i", for the decimal digits p
DecPass(p, s) ==
    IF s.how # "run" THEN s
    ELSE IF ~(s.i < Len(p)) THEN [s EXCEPT !.how = "end"]
    ELSE LET ch == CharAt(p, s.i)
         IN  IF ~isdigit(ch) THEN [s EXCEPT !.how = "bad"]
             ELSE [s EXCEPT !.val = Int32MulAdd(s.val, 10, ch - 48),
                            !.ovf = @ \/ Int32Overflows(s.val, 10, ch - 48),
                            !.i   = (@ + 1) % 256,
                            !.how = IF (s.i + 1) % 256 = 0 THEN "loops" ELSE "run"]

\* n evaluations in a row
RECURSIVE DecPasses(_, _, _)
DecPasses(p, s, n) ==
    IF n = 0 THEN s
    ELSE IF n = 1 THEN DecPass(p, s)
    ELSE LET m == DecPasses(p, s, n \div 2)
         IN  IF m.how # "run" THEN m ELSE DecPasses(p, m, n - (n \div 2))

\* lines 510-528: the loop over the decimal digits p, then the sign
DecLoop(p, neg_val) ==
    LET s == DecPasses(p, LoopStart, Len(p) + 1)
    IN  IF s.how = "end"
        THEN Parsed(DECVAL, TRUE, IF neg_val THEN Int32Neg(s.val) ELSE s.val, s.ovf)
        ELSE IF s.how = "bad" THEN Parsed(BADPARAM, FALSE, 0, s.ovf)
        ELSE Endless(s.val, s.ovf)

\* int8_t ParseParam(char * param, int32_t * retval), as a function of the
\* string
ParseResult(str) ==
    LET p == SkipSpace(str)
    IN  IF CharAt(p, 0) = QUOTE
        THEN IF CharAt(p, Len(p) - 1) = QUOTE
             THEN Parsed(STRVAL, FALSE, 0, FALSE)
             ELSE Parsed(BADPARAM, FALSE, 0, FALSE)
        ELSE IF CharAt(p, 0) = 48 /\ tolower(CharAt(p, 1)) = 120
        THEN HexLoop(SubSeq(p, 3, Len(p)))
        ELSE IF CharAt(p, 0) = MINUS
        THEN DecLoop(Tail(p), TRUE)
        ELSE IF ~isdigit(CharAt(p, 0))
        THEN Parsed(BADPARAM, FALSE, 0, FALSE)
        ELSE DecLoop(p, FALSE)

\* A call that stores val whatever it returns
ParseParam_StoresAlways ==
    LET r == ParseResult(param)
    IN  /\ op # "abort" /\ op # "hang"
        /\ \E trap \in (IF r.ovf THEN BOOLEAN ELSE {FALSE}) :
              IF trap
              THEN op' = "abort" /\ ret' = -1 /\ retval' = retval
              ELSE IF r.loops
              THEN op' = "hang" /\ ret' = -1 /\ retval' = retval
              ELSE /\ op' = "ParseParam" /\ ret' = r.type
                   /\ retval' = r.val
        /\ obs' = NoObs
        /\ UNCHANGED <<input, argv, delimiter, terminators, defaultFunc, errorFunc,
                       rx, lineBytes, nArr, nCfg, param>>

\* a call ParseParam(param, &retval).  A signed overflow of val is undefined
\* behaviour, and what follows it is what the build makes of it: the call
\* goes on with the wrapped value (builds without overflow checks), or it
\* traps at the overflow, which ends the program with nothing returned and
\* nothing stored (op = "abort"; builds with -ftrapv or the overflow
\* sanitizer).  A call whose digit loop does not end never returns
\* (op = "hang"): the caller gets no value and nothing runs after it.
ParseParam ==
    LET r == ParseResult(param)
    IN  /\ op # "abort" /\ op # "hang"
        /\ \E trap \in (IF r.ovf THEN BOOLEAN ELSE {FALSE}) :
              IF trap
              THEN op' = "abort" /\ ret' = -1 /\ retval' = retval
              ELSE IF r.loops
              THEN op' = "hang" /\ ret' = -1 /\ retval' = retval
              ELSE /\ op' = "ParseParam" /\ ret' = r.type
                   /\ retval' = (IF r.wrote THEN r.val ELSE retval)
        /\ obs' = NoObs
        /\ UNCHANGED <<input, argv, delimiter, terminators, defaultFunc, errorFunc,
                       rx, lineBytes, nArr, nCfg, param>>

\* TAB, space, '"', '-', '0', '1', 'a', 'x' and 'G'
ParamAlphabet == {TAB, SPACE, QUOTE, MINUS, 48, 49, 97, 120, 71}

\* "0x1A", "0X1a", "0XfF", "0X", "0x7fffffff", "-42", ""hi"" (with the
\* quotes), "12a", "0x1G"
ParamExamples ==
    { <<48, 120, 49, 65>>, <<48, 88, 49, 97>>, <<48, 88, 102, 70>>, <<48, 88>>,
      <<48, 120, 55, 102, 102, 102, 102, 102, 102, 102>>,
      <<MINUS, 52, 50>>, <<QUOTE, 104, 105, QUOTE>>, <<49, 50, 97>>,
      <<48, 120, 49, 71>> }

\* numbers around the ends of the int32_t range: "2147483647", "2147483648",
\* "-2147483647", "-2147483649", "4294967297", "99999999999", "0xFFFFFFFF",
\* "0x80000000", "0x100000001", "0xFFFFFFFFG"
ParamLarge ==
    { <<50, 49, 52, 55, 52, 56, 51, 54, 52, 55>>,
      <<50, 49, 52, 55, 52, 56, 51, 54, 52, 56>>,
      <<MINUS, 50, 49, 52, 55, 52, 56, 51, 54, 52, 55>>,
      <<MINUS, 50, 49, 52, 55, 52, 56, 51, 54, 52, 57>>,
      <<52, 50, 57, 52, 57, 54, 55, 50, 57, 55>>,
      <<57, 57, 57, 57, 57, 57, 57, 57, 57, 57, 57>>,
      <<48, 120, 70, 70, 70, 70, 70, 70, 70, 70>>,
      <<48, 120, 56, 48, 48, 48, 48, 48, 48, 48>>,
      <<48, 120, 49, 48, 48, 48, 48, 48, 48, 48, 49>>,
      <<48, 120, 70, 70, 70, 70, 70, 70, 70, 70, 71>> }

\* n characters c, and n characters '0'
Repeat(c, n) == [k \in 1..n |-> c]
Zeros(n) == Repeat(48, n)

\* strings around the 255 characters that a uint8_t counts: 255 and 256
\* zeros bare, after "0x" and after "-"; 300 zeros and 'z'; 100 zeros, 'z'
\* and 200 zeros; 255 zeros and '1'; 255 and 256 times 'F' after "0x" and
\* 255 and 256 times '9' bare and after "-"
ParamLong ==
    { Zeros(255), Zeros(256),
      <<48, 120>> \o Zeros(255), <<48, 120>> \o Zeros(256),
      <<MINUS>> \o Zeros(255), <<MINUS>> \o Zeros(256),
      Zeros(300) \o <<122>>,
      Zeros(100) \o <<122>> \o Zeros(200),
      Zeros(255) \o <<49>>,
      <<48, 120>> \o Zeros(255) \o <<49>>,
      <<48, 120>> \o Repeat(70, 255), <<48, 120>> \o Repeat(70, 256),
      Repeat(57, 255), Repeat(57, 256),
      <<MINUS>> \o Repeat(57, 255), <<MINUS>> \o Repeat(57, 256) }

\* the strings a caller passes: every string of up to MaxParamLen characters
\* of ParamAlphabet, and the examples
ParamStrings ==
    UNION {[1..n -> ParamAlphabet] : n \in 0..MaxParamLen}
        \cup ParamExamples \cup ParamLarge \cup ParamLong

\* what the caller's int32_t holds before the call
RetvalArgs == {0, 77}

InitParse ==
    /\ SetDefaults(TRUE, NUL)
    /\ rx = <<>>
    /\ op = "construct" /\ ret = -1 /\ obs = NoObs
    /\ lineBytes = <<>>
    /\ nArr = 0 /\ nCfg = 0
    /\ param \in ParamStrings
    /\ retval \in RetvalArgs

NextParse == ParseParam

SpecParse == InitParse /\ [][NextParse]_vars

\* ------------------------------------------------------------------------
\* Properties of ParseParam (SpecParse)
\* ------------------------------------------------------------------------
\* the string without its leading whitespace
Whitespace == {9, 10, 11, 12, 13, SPACE}
Trim(str) ==
    LET ks == {k \in 0..Len(str) : \A j \in 1..k : str[j] \in Whitespace}
        n  == CHOOSE k \in ks : \A m \in ks : m <= k
    IN  SubSeq(str, n + 1, Len(str))

\* the hexadecimal digits and their values
DigitValue ==
    [c \in (48..57) \cup (65..70) \cup (97..102) |->
        IF c <= 57 THEN c - 48 ELSE IF c <= 70 THEN c - 55 ELSE c - 87]

RECURSIVE Pow(_, _)
Pow(b, n) == IF n = 0 THEN 1 ELSE b * Pow(b, n - 1)

\* the number that the digits d spell in base b, most significant first
RECURSIVE ValueOf(_, _)
ValueOf(d, b) ==
    IF d = <<>> THEN 0
    ELSE (DigitValue[d[1]] * Pow(b, Len(d) - 1)) + ValueOf(Tail(d), b)

\* the string starts with "0x" or "0X" / the characters after that prefix
HasHexPrefix(str) == Len(str) >= 2 /\ str[1] = 48 /\ str[2] \in {120, 88}
AfterPrefix(str) == SubSeq(str, 3, Len(str))
AllHexDigits(d) == \A k \in 1..Len(d) : d[k] \in DOMAIN DigitValue

\* hexadecimal digits whose value fits an int32_t
FitsHex(d) == Len(d) <= 7 \/ (Len(d) = 8 /\ DigitValue[d[1]] <= 7)

\* the last step was a ParseParam call that returned
ParsedParam == op = "ParseParam"

\* C20 as stated: "0x" or "0X" with nothing after it gives BADPARAM
C20_AsStated ==
    (ParsedParam /\ param \in {<<48, 120>>, <<48, 88>>}) => ret = BADPARAM

\* the string starts with a double-quote
HasQuote(str) == str # <<>> /\ str[1] = QUOTE

\* the string without one leading '-', and whether it had one
Unsigned(str) == IF str # <<>> /\ str[1] = MINUS THEN Tail(str) ELSE str
Negative(str) == str # <<>> /\ str[1] = MINUS

\* an optional '-' and then one or more decimal digits
IsDecimal(str) ==
    /\ Len(Unsigned(str)) >= 1
    /\ \A k \in 1..Len(Unsigned(str)) : Unsigned(str)[k] \in 48..57

\* decimal digits whose value fits an int32_t whatever the sign
FitsDec(d) == Len(d) <= 9

\* the signed number a decimal string spells
DecimalValue(str) ==
    IF Negative(str) THEN 0 - ValueOf(Unsigned(str), 10)
    ELSE ValueOf(Unsigned(str), 10)

\* C22 as stated: for a string whose first character after the leading
\* whitespace is '"', ParseParam returns STRVAL exactly when the last
\* character is '"' too and the trimmed string has at least two characters,
\* and BADPARAM otherwise (a single '"' included); on STRVAL the string is
\* left as it was.
C22_AsStated ==
    [][ (op' = "ParseParam" /\ HasQuote(Trim(param))) =>
            LET t == Trim(param)
            IN  IF t[Len(t)] = QUOTE /\ Len(t) >= 2
                THEN ret' = STRVAL /\ param' = param
                ELSE ret' = BADPARAM ]_vars

\* the number the digits d spell in base b, of any size, as
\* (big * 2^16 + q) * 2^16 + lo with q below 2^16, where only whether big is
\* 0 or not (over) is kept: acc with the digits from..to of d appended
RECURSIVE BigRange(_, _, _, _, _)
BigRange(d, b, acc, from, to) ==
    IF from > to THEN acc
    ELSE IF from = to
    THEN LET t == (acc.lo * b) + DigitValue[d[from]]
             u == (acc.q * b) + (t \div 65536)
         IN  [q |-> u % 65536, over |-> acc.over \/ u >= 65536, lo |-> t % 65536]
    ELSE LET mid == (from + to) \div 2
             m   == BigRange(d, b, acc, from, mid)
         IN  IF m.q >= 0 THEN BigRange(d, b, m, mid + 1, to) ELSE m
BigValue(d, b, acc) == BigRange(d, b, acc, 1, Len(d))
Zero == [q |-> 0, over |-> FALSE, lo |-> 0]

\* n reduced modulo 2^32 and read as a two's-complement int32_t, and the
\* same for -n
AsInt32(n) ==
    LET h == n.q
    IN  ((IF h >= 32768 THEN h - 65536 ELSE h) * 65536) + n.lo
NegAsInt32(n) ==
    LET h == (65535 - n.q + (IF n.lo = 0 THEN 1 ELSE 0)) % 65536
    IN  ((IF h >= 32768 THEN h - 65536 ELSE h) * 65536) + ((65536 - n.lo) % 65536)

\* a well-formed hexadecimal / decimal string
IsHexNumber(str) ==
    HasHexPrefix(str) /\ Len(str) >= 3 /\ AllHexDigits(AfterPrefix(str))
IsDecNumber(str) == ~HasQuote(str) /\ ~HasHexPrefix(str) /\ IsDecimal(str)

\* the magnitude of a well-formed number, and whether the number fits an
\* int32_t
Magnitude(str) ==
    IF IsHexNumber(str) THEN BigValue(AfterPrefix(str), 16, Zero)
    ELSE BigValue(Unsigned(str), 10, Zero)
FitsInt32(str) ==
    LET n == Magnitude(str)
    IN  /\ ~n.over
        /\ \/ n.q <= 32767
           \/ (IsDecNumber(str) /\ Negative(str) /\ n.q = 32768 /\ n.lo = 0)
Reduced(str) ==
    IF IsDecNumber(str) /\ Negative(str) THEN NegAsInt32(Magnitude(str))
    ELSE AsInt32(Magnitude(str))

\* a ParseParam call was made and no overflow trap ended it: it returned,
\* or it is in the loop that does not end
WentOn == op = "ParseParam" \/ op = "hang"

\* C19 as stated: for a string that after its leading whitespace is "0x" or
\* "0X" and at least one more character, ParseParam returns: HEXVAL, with
\* the base-16 value of those characters (a-f in either case) stored, if all
\* of them are hexadecimal digits, and BADPARAM if one of them is not.  The
\* value is required where it fits an int32_t, and the calls judged are
\* those that no overflow trap has ended.
C19_AsStated ==
    (WentOn /\ HasHexPrefix(Trim(param)) /\ Len(Trim(param)) >= 3) =>
        IF AllHexDigits(AfterPrefix(Trim(param)))
        THEN /\ ParsedParam => ret = HEXVAL
             /\ FitsInt32(Trim(param)) =>
                    ParsedParam /\ retval = AsInt32(Magnitude(Trim(param)))
        ELSE ParsedParam /\ ret = BADPARAM

\* C21 as stated: a string that after its leading whitespace starts with
\* neither '"' nor "0x"/"0X" gives DECVAL and its signed base-10 value exactly
\* when it is an optional '-' and one or more decimal digits, and BADPARAM in
\* every other case, "-" alone included.  The value is required where it
\* fits an int32_t, and the calls judged are those that no overflow trap has
\* ended.
C21_AsStated ==
    (WentOn /\ ~HasQuote(Trim(param)) /\ ~HasHexPrefix(Trim(param))) =>
        IF IsDecimal(Trim(param))
        THEN /\ ParsedParam => ret = DECVAL
             /\ FitsInt32(Trim(param)) =>
                    ParsedParam /\ retval = Reduced(Trim(param))
             /\ (ParsedParam /\ FitsDec(Unsigned(Trim(param)))) =>
                    retval = DecimalValue(Trim(param))
        ELSE ParsedParam /\ ret = BADPARAM

\* C23 as stated: on a well-formed decimal or hexadecimal string whose value
\* does not fit an int32_t, ParseParam returns DECVAL or HEXVAL (never
\* BADPARAM) with *retval the value reduced modulo 2^32, read as a
\* two's-complement int32_t.  The calls judged are those that no overflow
\* trap has ended.
C23_AsStated ==
    (/\ WentOn
     /\ IsHexNumber(Trim(param)) \/ IsDecNumber(Trim(param))
     /\ ~FitsInt32(Trim(param))) =>
        /\ op = "ParseParam"
        /\ ret = (IF IsHexNumber(Trim(param)) THEN HEXVAL ELSE DECVAL)
        /\ retval = Reduced(Trim(param))

\* ------------------------------------------------------------------------
\* The completing terminator: the stream holds one or two lines ended by
\* ';', by CR or by a space when polling starts
\* ------------------------------------------------------------------------
\* "add a;x;", "add a" CR "x" CR, "add x;" CR and "a" BS "add;": bytes that
\* follow the first terminator
FollowedLines ==
    { <<97, 100, 100, SPACE, 97, SEMI, 120, SEMI>>,
      <<97, 100, 100, SPACE, 97, CR, 120, CR>>,
      <<97, 100, 100, SPACE, 120, SEMI, CR>>,
      <<97, CHAR_BS, 97, 100, 100, SEMI>> }

TermInputs == SemiLines \cup FollowedLines

\* ";", " " (which is also the default delimiter) and CR LF
TermTerminatorArgs == {<<SEMI>>, <<SPACE>>, <<CR, LF>>}

InitTerm ==
    /\ \E fill \in BufferFill : SetDefaults(TRUE, fill)
    /\ rx \in TermInputs
    /\ op = "construct" /\ ret = -1 /\ obs = NoObs
    /\ lineBytes = <<>>
    /\ nArr = 0 /\ nCfg = 0
    /\ param = <<>> /\ retval = 0

NextTerm ==
    \/ \E st \in HandlerStatus : DoCmdLine(st)
    \/ \E t \in TermTerminatorArgs : Terminators(t)
    \/ \E c \in DelimiterArgs : Delimiter(c)

SpecTerm == InitTerm /\ [][NextTerm]_vars

\* the part of the line in the buffer before a poll
Buffered == [k \in 1..input.index |-> input.g_cCmdBuf[k - 1]]

\* the last character of a non-empty text
LastOf(text) == text[Len(text)]

\* C24: a poll that a terminator completes consumed the stream up to that
\* terminator, the first one on it, and no byte after it.  A terminator other
\* than CR and LF is stored behind the text typed before it and is the last
\* character of the line that is dispatched, hence of the last argument
\* unless it is the delimiter; CR and LF are not stored.
C24_TerminatorStored ==
    [][ (op' = "DoCmdLine" /\ obs'.how = "term") =>
            LET n    == Len(Consumed)
                ch   == obs'.ch
                text == EditRange(Buffered, Consumed, 1, n - 1)
                line == IF ch = CR \/ ch = LF THEN text ELSE Append(text, ch)
                inv  == SelectSeq(obs'.calls, IsHandlerCall)
            IN  /\ n >= 1
                /\ rx' = SubSeq(rx, n + 1, Len(rx))
                /\ Consumed[n] = ch
                /\ IsTerminator(ch)
                /\ \A k \in 1..(n - 1) : ~IsTerminator(Consumed[k])
                /\ obs'.line = CutNul(line)
                /\ obs'.dispatched = (CutNul(line) # <<>>)
                /\ (ch # CR /\ ch # LF /\ ch # NUL /\ (\A k \in 1..Len(text) : text[k] # NUL)) =>
                      /\ obs'.dispatched
                      /\ LastOf(obs'.line) = ch
                      /\ \A k \in 1..Len(inv) :
                            (ch # delimiter /\ inv[k].argc >= 1) =>
                               LastOf(inv[k].args[inv[k].argc]) = ch ]_vars

\* "add a;x;" under the terminator ';': the poll read "add a;", Cmd_add got
\* the arguments "add" and "a;", and "x;" is still on the stream
C24_Witness ==
    /\ Dispatched
    /\ obs.ch = SEMI
    /\ obs.line = <<97, 100, 100, SPACE, 97, SEMI>>
    /\ Len(Invoked) = 1
    /\ Invoked[1].fn = "Cmd_add"
    /\ Invoked[1].args = << <<97, 100, 100>>, <<97, SEMI>> >>
    /\ rx = <<120, SEMI>>

\* ------------------------------------------------------------------------
\* Several lines on the stream (SpecLines)
\* ------------------------------------------------------------------------
\* the positions of the terminators on the stream, and the first of them
TerminatorsAt(stream) ==
    {k \in 1..Len(stream) : IsTerminator(Mask7(stream[k]))}
FirstTerminator(stream) ==
    CHOOSE k \in TerminatorsAt(stream) : \A j \in TerminatorsAt(stream) : k <= j

\* the first terminated line on the stream, its terminator included, masked
FirstLine(stream) ==
    [k \in 1..FirstTerminator(stream) |-> Mask7(stream[k])]

\* C25: a poll that starts a line while the stream holds one or more
\* terminated lines, the first no longer than the buffer takes, consumes
\* exactly the first of them with its terminator and leaves the others on the
\* stream; it returns 1, the line it passes on is that first line, whole and
\* alone, and it invokes at most one command or default handler, with the
\* words of that line.  (An empty line is completed without a dispatch.)  So
\* successive polls take the lines one per poll in arrival order, and a poll
\* of the emptied stream returns 0 and dispatches nothing.
C25_OneLinePerPoll ==
    [][ /\ (/\ op' = "DoCmdLine"
            /\ input.index = 0
            /\ TerminatorsAt(rx) # {}
            /\ FirstTerminator(rx) <= ScanLimit) =>
               LET p    == FirstTerminator(rx)
                   line == ExpectedLine(FirstLine(rx))
                   inv  == SelectSeq(obs'.calls, IsHandlerCall)
               IN  /\ ret' = 1
                   /\ rx' = SubSeq(rx, p + 1, Len(rx))
                   /\ obs'.line = line
                   /\ obs'.dispatched = (line # <<>>)
                   /\ Len(inv) <= 1
                   /\ \A k \in 1..Len(inv) : inv[k].args = Split(line, delimiter)
        /\ (op' = "DoCmdLine" /\ rx = <<>>) =>
               ret' = 0 /\ ~obs'.dispatched /\ obs'.calls = <<>> ]_vars

\* of "add a" CR "lis" CR the first poll dispatched "add a" to Cmd_add and
\* left "lis" CR on the stream
C25_Witness ==
    /\ Dispatched
    /\ ret = 1
    /\ obs.line = <<97, 100, 100, SPACE, 97>>
    /\ Len(Invoked) = 1
    /\ Invoked[1].fn = "Cmd_add"
    /\ rx = <<108, 105, 115, CR>>

\* C26: a ParseParam call leaves the string it is given and the state of the
\* interpreter (line buffer, cursor, flags, argv, delimiter, terminators,
\* handlers) and the stream as they were; the caller's *retval keeps its
\* value when the call returns STRVAL or BADPARAM, also when digits had
\* been accumulated before the character that made the string bad, and is
\* written only when the call returns DECVAL or HEXVAL.
C26_ParseParamFrame ==
    [][ (op' = "ParseParam" \/ op' = "abort" \/ op' = "hang") =>
            /\ param' = param
            /\ UNCHANGED <<input, argv, delimiter, terminators, defaultFunc,
                           errorFunc, rx>>
            /\ (op' = "ParseParam" /\ ret' \in {STRVAL, BADPARAM}) => retval' = retval
            /\ retval' # retval => (op' = "ParseParam" /\ ret' \in {DECVAL, HEXVAL}) ]_vars

\* "12a" was rejected after the digits 1 and 2: BADPARAM, and the caller's
\* 77 is still there
C26_Witness ==
    /\ ParsedParam
    /\ param = <<49, 50, 97>>
    /\ ret = BADPARAM
    /\ retval = 77

====
